---- MODULE Spec2Model ----
(***************************************************************************)
(* Accessible-colour computation engine of accessible-palette:             *)
(*   lib/color/contrast.ts     WCAG contrast ratio, N x N matrix, summary  *)
(*   lib/color/suggestions.ts  nearest accessible colour (lightness search)*)
(*                                                                         *)
(* Numbers.  The code computes in IEEE doubles; the model computes in      *)
(* fixed point.  A lightness, an OKLab coordinate, a linear-light channel  *)
(* and a contrast ratio are integers in units of 1/Unit (Unit = 10^6);     *)
(* a relative luminance is an integer in units of 1/LumUnit (10^8).        *)
(* Every product is taken limb-wise so that no intermediate value exceeds  *)
(* 32 bits.  The two gamma curves of sRGB are tabulated on the 256 channel *)
(* values, which is where the code evaluates them.                         *)
(*                                                                         *)
(* A hex colour "RRGGBB" is the triple <<R, G, B>> of its channel bytes;   *)
(* an OKLCH colour with fixed chroma and hue is the triple <<l, a, b>> of  *)
(* its lightness and its two OKLab opponent coordinates (a = c cos h,      *)
(* b = c sin h), which are what the conversions compute with.              *)
(***************************************************************************)
EXTENDS Integers, Sequences, FiniteSets, TLC

\* ---------------------------------------------------------------- bounds
\* Number of entries of ColorTable the search is exercised on.
NumColors == 8
\* Longest palette handed to generateContrastMatrix.
MaxDigits == 7
MaxPalette == 3
\* Number of calls of announce in a session.
MaxAnnouncements == 3

\* -------------------------------------------------------------- constants
Unit == 1000 * 1000
LumUnit == 100 * Unit

\* suggestions.ts: const MAX_ITERATIONS = 50
MAX_ITERATIONS == 50
\* suggestions.ts: const LIGHTNESS_PRECISION = 0.001
LIGHTNESS_PRECISION == 1000

\* contrast.ts: CONTRAST_THRESHOLDS, in hundredths (the unit of a rounded ratio)
AA_NORMAL == 450
AAA_NORMAL == 700
AA_LARGE == 300
UI_COMPONENT == 300

\* null / undefined
NULL == << >>

\* ------------------------------------------------------------ arithmetic
Min(x, y) == IF x <= y THEN x ELSE y
Max(x, y) == IF x >= y THEN x ELSE y
Abs(x) == IF x >= 0 THEN x ELSE 0 - x

\* floor(x * y / Unit) for |x|, |y| < 2^31 / 1000, without overflow.
Mul(x, y) ==
  LET x1 == x \div 1000
      x0 == x % 1000
      y1 == y \div 1000
      y0 == y % 1000
  IN  x1 * y1 + ((x1 * y0 + x0 * y1 + ((x0 * y0) \div 1000)) \div 1000)

Cube(x) == Mul(Mul(x, x), x)

\* Math.cbrt on [0, 2]: the largest y with y^3 <= x.
RECURSIVE CbrtSearch(_, _, _)
CbrtSearch(x, lo, hi) ==
  IF lo >= hi THEN lo
  ELSE LET m == (lo + hi + 1) \div 2
       IN  IF Cube(m) <= x THEN CbrtSearch(x, m, hi) ELSE CbrtSearch(x, lo, m - 1)

Cbrt(x) == CbrtSearch(x, 0, 2 * Unit)

\* floor(num * Unit / den) for 0 <= num, 0 < den < 2^31 / 10: long division,
\* one decimal digit at a time.
RECURSIVE DivDigits(_, _, _, _)
DivDigits(rem, den, acc, digits) ==
  IF digits = 0 THEN acc
  ELSE DivDigits((rem * 10) % den, den, acc * 10 + ((rem * 10) \div den), digits - 1)

Ratio(num, den) == DivDigits(num % den, den, num \div den, 6)

\* --------------------------------------------------- culori: sRGB <-> linear
\* rgb -> lrgb on a channel byte v: v/255 <= 0.04045 ? /12.92 :
\* ((v/255 + 0.055) / 1.055) ^ 2.4, in 1/LumUnit.  Entry v + 1 is the value at v.
SrgbToLinear ==
  <<
     0, 30353, 60705, 91058, 121411, 151763, 182116, 212469,
     242822, 273174, 303527, 334654, 367651, 402472, 439144, 477695,
     518152, 560539, 604883, 651209, 699541, 749903, 802319, 856813,
     913406, 972122, 1032982, 1096009, 1161225, 1228649, 1298303, 1370208,
     1444384, 1520851, 1599629, 1680738, 1764195, 1850022, 1938236, 2028856,
     2121901, 2217388, 2315337, 2415763, 2518686, 2624122, 2732089, 2842604,
     2955683, 3071344, 3189603, 3310477, 3433981, 3560131, 3688945, 3820437,
     3954624, 4091520, 4231141, 4373503, 4518620, 4666509, 4817182, 4970657,
     5126946, 5286065, 5448028, 5612849, 5780543, 5951124, 6124605, 6301002,
     6480327, 6662594, 6847817, 7036010, 7227185, 7421357, 7618538, 7818742,
     8021982, 8228271, 8437621, 8650046, 8865559, 9084171, 9305896, 9530747,
     9758735, 9989873, 10224173, 10461648, 10702310, 10946171, 11193243, 11443537,
     11697067, 11953843, 12213877, 12477182, 12743768, 13013648, 13286832, 13563333,
     13843162, 14126329, 14412847, 14702727, 14995979, 15292615, 15592646, 15896084,
     16202938, 16513219, 16826940, 17144110, 17464740, 17788842, 18116424, 18447499,
     18782077, 19120168, 19461783, 19806932, 20155625, 20507874, 20863687, 21223076,
     21586050, 21952620, 22322796, 22696587, 23074005, 23455058, 23839757, 24228112,
     24620133, 25015828, 25415209, 25818285, 26225066, 26635560, 27049779, 27467731,
     27889426, 28314874, 28744084, 29177065, 29613827, 30054379, 30498731, 30946892,
     31398871, 31854678, 32314321, 32777810, 33245154, 33716362, 34191442, 34670406,
     35153260, 35640014, 36130678, 36625260, 37123768, 37626212, 38132601, 38642943,
     39157248, 39675523, 40197778, 40724021, 41254261, 41788507, 42326767, 42869050,
     43415364, 43965717, 44520119, 45078578, 45641102, 46207700, 46778380, 47353150,
     47932018, 48514994, 49102085, 49693300, 50288646, 50888132, 51491767, 52099557,
     52711513, 53327640, 53947949, 54572446, 55201140, 55834039, 56471151, 57112483,
     57758044, 58407842, 59061884, 59720179, 60382734, 61049557, 61720656, 62396039,
     63075714, 63759687, 64447968, 65140564, 65837482, 66538730, 67244316, 67954247,
     68668531, 69387176, 70110189, 70837578, 71569350, 72305513, 73046074, 73791041,
     74540421, 75294222, 76052450, 76815115, 77582222, 78353779, 79129794, 79910274,
     80695226, 81484657, 82278575, 83076988, 83879901, 84687323, 85499261, 86315721,
     87136712, 87962240, 88792312, 89626935, 90466117, 91309865, 92158186, 93011086,
     93868573, 94730654, 95597335, 96468625, 97344529, 98225055, 99110210, 100000000 >>

\* lrgb -> rgb -> byte: entry v is the least linear value, in 1/Unit, whose
\* gamma-encoded value (x > 0.0031308 ? 1.055 x^(1/2.4) - 0.055 : 12.92 x)
\* times 255 rounds (Math.round) to v or more, v = 1..255.
LinearToSrgbStep ==
  <<
     152, 456, 759, 1063, 1366, 1670, 1973, 2277,
     2580, 2884, 3189, 3510, 3849, 4206, 4582, 4977,
     5392, 5825, 6278, 6752, 7245, 7759, 8294, 8849,
     9425, 10023, 10643, 11284, 11947, 12632, 13340, 14071,
     14824, 15600, 16399, 17222, 18069, 18939, 19833, 20751,
     21694, 22661, 23653, 24670, 25711, 26778, 27871, 28989,
     30132, 31302, 32498, 33719, 34968, 36243, 37544, 38872,
     40228, 41610, 43020, 44458, 45923, 47415, 48936, 50485,
     52062, 53667, 55301, 56964, 58655, 60376, 62125, 63903,
     65711, 67549, 69416, 71313, 73239, 75196, 77183, 79200,
     81248, 83326, 85435, 87575, 89745, 91947, 94180, 96444,
     98740, 101067, 103426, 105816, 108239, 110694, 113180, 115699,
     118251, 120835, 123452, 126101, 128783, 131499, 134247, 137029,
     139844, 142692, 145574, 148490, 151439, 154423, 157440, 160491,
     163577, 166697, 169851, 173040, 176264, 179522, 182816, 186144,
     189507, 192906, 196340, 199809, 203314, 206854, 210430, 214042,
     217689, 221373, 225093, 228849, 232641, 236470, 240335, 244237,
     248176, 252151, 256163, 260213, 264299, 268423, 272583, 276782,
     281017, 285291, 289602, 293950, 298337, 302761, 307224, 311725,
     316263, 320841, 325456, 330110, 334803, 339535, 344305, 349114,
     353962, 358849, 363775, 368741, 373745, 378790, 383873, 388996,
     394159, 399362, 404605, 409887, 415209, 420572, 425975, 431418,
     436901, 442425, 447989, 453594, 459239, 464926, 470653, 476421,
     482230, 488081, 493972, 499905, 505879, 511895, 517952, 524051,
     530191, 536373, 542597, 548863, 555171, 561521, 567913, 574348,
     580825, 587344, 593905, 600510, 607157, 613846, 620579, 627354,
     634172, 641033, 647938, 654885, 661876, 668910, 675988, 683109,
     690274, 697482, 704734, 712030, 719369, 726753, 734181, 741652,
     749168, 756728, 764333, 771982, 779675, 787413, 795195, 803022,
     810894, 818811, 826773, 834779, 842831, 850928, 859070, 867257,
     875490, 883768, 892091, 900460, 908875, 917335, 925841, 934393,
     942991, 951635, 960325, 969060, 977843, 986671, 995546 >>

\* A channel byte as linear light.
Linear(v) == SrgbToLinear[v + 1]

\* Math.round(clamp(x, 0, 1) * 255) of a gamma-encoded linear value x: the
\* number of steps of LinearToSrgbStep at or below the clamped value.
RECURSIVE ByteSearch(_, _, _)
ByteSearch(x, lo, hi) ==
  IF lo >= hi THEN lo
  ELSE LET m == (lo + hi + 1) \div 2
       IN  IF LinearToSrgbStep[m] <= x THEN ByteSearch(x, m, hi) ELSE ByteSearch(x, lo, m - 1)

fixup(x) == ByteSearch(Max(0, Min(Unit, x)), 0, 255)

\* ------------------------------------------------------ culori: wcagContrast
\* Relative luminance 0.2126 R + 0.7152 G + 0.0722 B of a hex colour, in
\* 1/LumUnit.
luminance(hex) ==
  LET r == Linear(hex[1])
      g == Linear(hex[2])
      b == Linear(hex[3])
  IN  2126 * (r \div 10000) + 7152 * (g \div 10000) + 722 * (b \div 10000)
      + ((2126 * (r % 10000) + 7152 * (g % 10000) + 722 * (b % 10000)) \div 10000)

\* (max(L1, L2) + 0.05) / (min(L1, L2) + 0.05), in 1/Unit.
wcagContrast(a, b) ==
  LET L1 == luminance(a)
      L2 == luminance(b)
  IN  Ratio(Max(L1, L2) + 5000000, Min(L1, L2) + 5000000)

\* ------------------------------------------------- culori: oklch, formatHex
\* oklch(hex): rgb -> lrgb -> LMS -> cube roots -> OKLab; a grey
\* (r = g = b) gets a = b = 0.
oklch(hex) ==
  LET r == (Linear(hex[1]) + 50) \div 100
      g == (Linear(hex[2]) + 50) \div 100
      b == (Linear(hex[3]) + 50) \div 100
      L == Cbrt(Mul(412221, r) + Mul(536333, g) + Mul(51446, b))
      M == Cbrt(Mul(211903, r) + Mul(680700, g) + Mul(107397, b))
      S == Cbrt(Mul(88302, r) + Mul(281719, g) + Mul(629979, b))
      grey == hex[1] = hex[2] /\ hex[2] = hex[3]
  IN  << Mul(210454, L) + Mul(793618, M) - Mul(4072, S),
         IF grey THEN 0 ELSE Mul(1977998, L) - Mul(2428592, M) + Mul(450594, S),
         IF grey THEN 0 ELSE Mul(25904, L) + Mul(782772, M) - Mul(808676, S) >>

\* formatHex(color): OKLab -> LMS cubed -> lrgb -> gamma -> clamp and round
\* every channel to a byte.  Never undefined for a defined colour.
formatHex(color) ==
  LET l == color[1]
      a == color[2]
      b == color[3]
      L == Cube(l + Mul(396338, a) + Mul(215804, b))
      M == Cube(l - Mul(105561, a) - Mul(63854, b))
      S == Cube(l - Mul(89484, a) - Mul(1291486, b))
  IN  << fixup(Mul(4076742, L) - Mul(3307712, M) + Mul(230970, S)),
         fixup(Mul(2609757, M) - Mul(1268438, L) - Mul(341319, S)),
         fixup(Mul(1707615, S) - Mul(4196, L) - Mul(703419, M)) >>

\* ------------------------------------------------------------- input sets
\* Hex colours the operations are called with: FFFFFF, 767676 (the AA
\* boundary grey), 000000, 777777, 070707, and the colours of
\* test-contrast.mjs D1D5DB, 60A5FA, 1F2937, 7C3AED, 111827, then FF0000,
\* 2563EB.
ColorTable ==
  << <<255, 255, 255>>, <<118, 118, 118>>, <<0, 0, 0>>, <<119, 119, 119>>,
     <<7, 7, 7>>, <<209, 213, 219>>, <<96, 165, 250>>, <<31, 41, 55>>,
     <<124, 58, 237>>, <<17, 24, 39>>, <<255, 0, 0>>, <<37, 99, 235>> >>

Colors == {ColorTable[i] : i \in 1..Min(NumColors, Len(ColorTable))}

\* Hex values of palette entries: white and the AA boundary grey (4.54 : 1
\* against each other; either against itself 1 : 1).
PaletteHexes == {ColorTable[1], ColorTable[2]}

WHITE == <<255, 255, 255>>
BLACK == <<0, 0, 0>>

\* Target ratios: 3 (large text), 4.5 (AA), 7 (AAA) of getTargetRatio, and
\* the unreachable 21.
TargetRatios == {3000000, 4500000, 7000000, 21000000}

Levels == {"AA", "AAA"}

\* Rounded ratios handed to evaluateContrastRatio, in hundredths: 1.00 .. 21.00.
EvalRatios == 100..2100

\* Palette ids; LookupIds adds one id no palette contains.
IdTable == <<"a", "b", "c", "d", "e", "f">>
IdRange == 1..Min(MaxPalette, Len(IdTable))
Ids == {IdTable[i] : i \in IdRange}
LookupIds == Ids \cup {"z"}

Entries == [id : Ids, hex : PaletteHexes]

\* Ids are opaque and only compared for equality, so a palette is taken up
\* to renaming: its k-th entry carries an id used before it or the first
\* unused id of IdTable.  Ids may repeat, and so may hex values.
IdIndex(id) == CHOOSE i \in IdRange : IdTable[i] = id

FirstUse(p) ==
  \A k \in 1..Len(p) :
    \/ \E m \in 1..(k - 1) : p[m].id = p[k].id
    \/ IdIndex(p[k].id) = Cardinality({p[m].id : m \in 1..(k - 1)}) + 1

Palettes == {p \in UNION {[1..n -> Entries] : n \in 0..MaxPalette} : FirstUse(p)}

\* ------------------------------------------------- suggestions.ts: search
\* getTargetRatio(targetLevel, isLarge)
getTargetRatio(targetLevel, isLarge) ==
  IF isLarge THEN 3000000
  ELSE IF targetLevel = "AA" THEN 4500000 ELSE 7000000

\* The locals of searchLightness before the loop.
searchInit_lightenOnly(fgColor, darken) ==
  [low |-> fgColor[1], high |-> Unit, bestColor |-> NULL, iterations |-> 0]

searchInit(fgColor, darken) ==
  [low |-> IF darken THEN 0 ELSE fgColor[1],
   high |-> IF darken THEN fgColor[1] ELSE Unit,
   bestColor |-> NULL,
   iterations |-> 0]

\* The while condition of searchLightness.
loopCondition_noPrecision(s) == s.iterations < MAX_ITERATIONS

loopCondition(s) ==
  s.iterations < MAX_ITERATIONS /\ s.high - s.low > LIGHTNESS_PRECISION

\* if (ratio >= targetRatio)
meetsTarget_near(ratio, target) == ratio + 100000 >= target

meetsTarget(ratio, target) == ratio >= target

\* One pass through the body of the while loop: the locals after it.
searchIteration_alwaysRecord(fgColor, bgColor, target, darken, s) ==
  LET mid == (s.low + s.high) \div 2
      testColor == <<mid, fgColor[2], fgColor[3]>>
      ok == meetsTarget(wcagContrast(formatHex(testColor), bgColor), target)
  IN  [low |-> IF ok = darken THEN mid ELSE s.low,
       high |-> IF ok = darken THEN s.high ELSE mid,
       bestColor |-> testColor,
       iterations |-> s.iterations + 1]

searchIteration_narrowAway(fgColor, bgColor, target, darken, s) ==
  LET mid == (s.low + s.high) \div 2
      testColor == <<mid, fgColor[2], fgColor[3]>>
      ok == meetsTarget(wcagContrast(formatHex(testColor), bgColor), target)
  IN  [low |-> IF darken THEN s.low ELSE mid,
       high |-> IF darken THEN mid ELSE s.high,
       bestColor |-> IF ok THEN testColor ELSE s.bestColor,
       iterations |-> s.iterations + 1]

searchIteration(fgColor, bgColor, target, darken, s) ==
  LET mid == (s.low + s.high) \div 2
      testColor == <<mid, fgColor[2], fgColor[3]>>
      testHex == formatHex(testColor)
      ratio == wcagContrast(testHex, bgColor)
  IN  IF meetsTarget(ratio, target)
      THEN [low |-> IF darken THEN mid ELSE s.low,
            high |-> IF darken THEN s.high ELSE mid,
            bestColor |-> testColor,
            iterations |-> s.iterations + 1]
      ELSE [low |-> IF darken THEN s.low ELSE mid,
            high |-> IF darken THEN mid ELSE s.high,
            bestColor |-> s.bestColor,
            iterations |-> s.iterations + 1]

RECURSIVE searchLoop(_, _, _, _, _)
searchLoop(fgColor, bgColor, target, darken, s) ==
  IF loopCondition(s)
  THEN searchLoop(fgColor, bgColor, target, darken,
                  searchIteration(fgColor, bgColor, target, darken, s))
  ELSE s

\* searchLightness(fg, bgColor, targetRatio, shouldDarken): the candidate, or NULL.
searchLightness(fgColor, bgColor, target, darken) ==
  searchLoop(fgColor, bgColor, target, darken, searchInit(fgColor, darken)).bestColor

\* if (currentRatio >= targetRatio) return foregroundHex
alreadyPasses_never(currentRatio, target) == FALSE

alreadyPasses(currentRatio, target) == currentRatio >= target

\* if (!result) return null; return formatHex(result) without '#', upper case
toResultHex_default(best) == IF best = NULL THEN BLACK ELSE formatHex(best)

toResultHex(best) == IF best = NULL THEN NULL ELSE formatHex(best)

\* const shouldDarken = fg.l > bgLightness
primaryDirection(fgColor, bgHex) == fgColor[1] > oklch(bgHex)[1]

\* findNearestAccessible(foregroundHex, backgroundHex, targetRatio)
findNearestAccessible(fgHex, bgHex, target) ==
  LET fgColor == oklch(fgHex)
  IN  IF alreadyPasses(wcagContrast(fgHex, bgHex), target) THEN fgHex
      ELSE LET darken == primaryDirection(fgColor, bgHex)
               first == searchLightness(fgColor, bgHex, target, darken)
               best == IF first = NULL
                       THEN searchLightness(fgColor, bgHex, target, ~darken)
                       ELSE first
           IN  toResultHex(best)

\* ------------------------------------------------------------ contrast.ts
\* calculateContrast(foreground, background): Math.round(ratio * 100) / 100,
\* in hundredths.
calculateContrast_directional(foreground, background) ==
  (Ratio(luminance(foreground) + 5000000, luminance(background) + 5000000) + 5000) \div 10000

calculateContrast_unscaled(foreground, background) ==
  ((wcagContrast(foreground, background) + 5000) \div 10000) * 100

calculateContrast_truncated(foreground, background) ==
  wcagContrast(foreground, background) \div 10000

calculateContrast(foreground, background) ==
  (wcagContrast(foreground, background) + 5000) \div 10000

\* evaluateContrastRatio(ratio)
evaluateContrastRatio_strict(ratio) ==
  [passesAA |-> ratio > AA_NORMAL,
   passesAAA |-> ratio > AAA_NORMAL,
   passesAALarge |-> ratio > AA_LARGE,
   passesUIComponent |-> ratio > UI_COMPONENT]

evaluateContrastRatio_swapped(ratio) ==
  [passesAA |-> ratio >= AA_LARGE,
   passesAAA |-> ratio >= AAA_NORMAL,
   passesAALarge |-> ratio >= AA_NORMAL,
   passesUIComponent |-> ratio >= UI_COMPONENT]

evaluateContrastRatio(ratio) ==
  [passesAA |-> ratio >= AA_NORMAL,
   passesAAA |-> ratio >= AAA_NORMAL,
   passesAALarge |-> ratio >= AA_LARGE,
   passesUIComponent |-> ratio >= UI_COMPONENT]

\* calculateContrastResult(foregroundId, foregroundHex, backgroundId,
\*                         backgroundHex, targetLevel)
calculateContrastResult_byHex(foregroundId, foregroundHex, backgroundId, backgroundHex, targetLevel) ==
  LET ratio == calculateContrast(foregroundHex, backgroundHex)
      evaluation == evaluateContrastRatio(ratio)
      passes == IF targetLevel = "AA" THEN evaluation.passesAA ELSE evaluation.passesAAA
  IN  [foregroundId |-> foregroundId,
       backgroundId |-> backgroundId,
       ratio |-> ratio,
       apcaValue |-> NULL,
       passesAA |-> evaluation.passesAA,
       passesAAA |-> evaluation.passesAAA,
       passesAALarge |-> evaluation.passesAALarge,
       passesUIComponent |-> evaluation.passesUIComponent,
       suggestedFix |->
         IF ~passes /\ foregroundHex # backgroundHex
         THEN findNearestAccessible(foregroundHex, backgroundHex,
                                    getTargetRatio(targetLevel, FALSE))
         ELSE NULL]

calculateContrastResult(foregroundId, foregroundHex, backgroundId, backgroundHex, targetLevel) ==
  LET ratio == calculateContrast(foregroundHex, backgroundHex)
      evaluation == evaluateContrastRatio(ratio)
      passes == IF targetLevel = "AA" THEN evaluation.passesAA ELSE evaluation.passesAAA
  IN  [foregroundId |-> foregroundId,
       backgroundId |-> backgroundId,
       ratio |-> ratio,
       apcaValue |-> NULL,
       passesAA |-> evaluation.passesAA,
       passesAAA |-> evaluation.passesAAA,
       passesAALarge |-> evaluation.passesAALarge,
       passesUIComponent |-> evaluation.passesUIComponent,
       suggestedFix |->
         IF ~passes /\ foregroundId # backgroundId
         THEN findNearestAccessible(foregroundHex, backgroundHex,
                                    getTargetRatio(targetLevel, FALSE))
         ELSE NULL]

\* for (const background of colors) { ... results.push(result) }, the results
\* pushed from the j-th colour on.
RECURSIVE backgroundLoop_skipDiagonal(_, _, _, _)
backgroundLoop_skipDiagonal(colors, targetLevel, foreground, j) ==
  IF j > Len(colors) THEN << >>
  ELSE (IF colors[j].id = foreground.id THEN << >>
        ELSE <<calculateContrastResult(foreground.id, foreground.hex,
                                       colors[j].id, colors[j].hex, targetLevel)>>)
       \o backgroundLoop_skipDiagonal(colors, targetLevel, foreground, j + 1)

RECURSIVE backgroundLoop(_, _, _, _)
backgroundLoop(colors, targetLevel, foreground, j) ==
  IF j > Len(colors) THEN << >>
  ELSE <<calculateContrastResult(foreground.id, foreground.hex,
                                 colors[j].id, colors[j].hex, targetLevel)>>
       \o backgroundLoop(colors, targetLevel, foreground, j + 1)

\* for (const foreground of colors) { ... }: the results pushed from the
\* i-th colour on.
RECURSIVE foregroundLoop(_, _, _)
foregroundLoop(colors, targetLevel, i) ==
  IF i > Len(colors) THEN << >>
  ELSE backgroundLoop(colors, targetLevel, colors[i], 1)
       \o foregroundLoop(colors, targetLevel, i + 1)

\* generateContrastMatrix(colors, targetLevel)
generateContrastMatrix(colors, targetLevel) ==
  foregroundLoop(colors, targetLevel, 1)
\* The predicate handed to matrix.find.
matchesPair_unordered(result, foregroundId, backgroundId) ==
  \/ result.foregroundId = foregroundId /\ result.backgroundId = backgroundId
  \/ result.foregroundId = backgroundId /\ result.backgroundId = foregroundId

matchesPair(result, foregroundId, backgroundId) ==
  result.foregroundId = foregroundId /\ result.backgroundId = backgroundId

\* findContrastResult(matrix, foregroundId, backgroundId): Array.find gives
\* the first match, or undefined.
findContrastResult(matrix, foregroundId, backgroundId) ==
  LET hits == {k \in 1..Len(matrix) : matchesPair(matrix[k], foregroundId, backgroundId)}
  IN  IF hits = {} THEN NULL
      ELSE matrix[CHOOSE k \in hits : \A m \in hits : k <= m]

\* The filter of getContrastSummary that drops the diagonal.
isValidPair_byRatio(result) == result.ratio # 100

isValidPair(result) == result.foregroundId # result.backgroundId

\* Math.round((passing / total) * 100), 0 when total is 0.
percentageOf_floor(passing, total) ==
  IF total > 0 THEN (100 * passing) \div total ELSE 0

percentageOf(passing, total) ==
  IF total > 0 THEN (200 * passing + total) \div (2 * total) ELSE 0

\* getContrastSummary(matrix, targetLevel)
getContrastSummary(matrix, targetLevel) ==
  LET validPairs == SelectSeq(matrix, isValidPair)
      passesLevel(result) == IF targetLevel = "AA" THEN result.passesAA ELSE result.passesAAA
      passingPairs == SelectSeq(validPairs, passesLevel)
      total == Len(validPairs)
      passing == Len(passingPairs)
  IN  [total |-> total,
       passing |-> passing,
       failing |-> total - passing,
       percentage |-> percentageOf(passing, total)]

\* ---------------------------------------------------------------------------
\* lib/palette/generator.ts: the palette state and its reducer.

\* createDefaultPalette(): five colours; an id is a number here.
createDefaultPalette ==
  << [id |-> 1, hex |-> <<255, 255, 255>>, label |-> "Background",
      role |-> "background", locked |-> FALSE],
     [id |-> 2, hex |-> <<243, 244, 246>>, label |-> "Surface",
      role |-> "surface", locked |-> FALSE],
     [id |-> 3, hex |-> <<17, 24, 39>>, label |-> "Text",
      role |-> "text-primary", locked |-> FALSE],
     [id |-> 4, hex |-> <<37, 99, 235>>, label |-> "Primary",
      role |-> "primary", locked |-> FALSE],
     [id |-> 5, hex |-> <<124, 58, 237>>, label |-> "Accent",
      role |-> "accent", locked |-> FALSE] >>

initialPaletteState ==
  [colors |-> createDefaultPalette,
   contrastStandard |-> "WCAG2",
   targetLevel |-> "AA",
   mode |-> "light"]

\* { ...color, ...updates }
mergeUpdates(color, updates) ==
  [f \in DOMAIN color |-> IF f \in DOMAIN updates THEN updates[f] ELSE color[f]]

\* state.colors.filter(color => color.id !== id)
RECURSIVE filterOutId(_, _)
filterOutId(entries, id) ==
  IF entries = << >> THEN << >>
  ELSE IF Head(entries).id # id
       THEN <<Head(entries)>> \o filterOutId(Tail(entries), id)
       ELSE filterOutId(Tail(entries), id)

\* if (state.colors.length >= 12) return state
addIsRefused_above(s) == Len(s.colors) > 12

addIsRefused(s) == Len(s.colors) >= 12

\* if (state.colors.length <= 2) return state
removeIsRefused(s) == Len(s.colors) <= 2

\* paletteReducer(state, action): the next state
paletteReducer(s, action) ==
  CASE action.type = "ADD_COLOR" ->
         IF addIsRefused(s) THEN s
         ELSE [s EXCEPT !.colors = Append(s.colors, action.payload)]
    [] action.type = "REMOVE_COLOR" ->
         IF removeIsRefused(s) THEN s
         ELSE [s EXCEPT !.colors = filterOutId(s.colors, action.payload.id)]
    [] action.type = "UPDATE_COLOR" ->
         [s EXCEPT !.colors =
            [i \in 1..Len(s.colors) |->
               IF s.colors[i].id = action.payload.id
               THEN mergeUpdates(s.colors[i], action.payload.updates)
               ELSE s.colors[i]]]
    [] action.type = "SET_CONTRAST_STANDARD" ->
         [s EXCEPT !.contrastStandard = action.payload]
    [] action.type = "SET_TARGET_LEVEL" ->
         [s EXCEPT !.targetLevel = action.payload]
    [] action.type = "SET_MODE" ->
         [s EXCEPT !.mode = action.payload]
    [] action.type = "RESET_PALETTE" -> initialPaletteState
    [] OTHER -> s

\* An array object that is neither of the two given ones nor the initial one.
newArray(ref, kept) == CHOOSE n \in 1..3 : n # ref /\ n # kept

\* paletteReducer(state, action): which array object the next state.colors
\* is. The spread, filter and map build a new array; the early returns and
\* the other cases keep the one of state; RESET_PALETTE gives the array of
\* initialPaletteState.
colorsOf(s, ref, kept, action) ==
  CASE action.type = "ADD_COLOR" ->
         IF addIsRefused(s) THEN ref ELSE newArray(ref, kept)
    [] action.type = "REMOVE_COLOR" ->
         IF removeIsRefused(s) THEN ref ELSE newArray(ref, kept)
    [] action.type = "UPDATE_COLOR" -> newArray(ref, kept)
    [] action.type = "RESET_PALETTE" -> 0
    [] OTHER -> ref

\* hooks/useContrastMatrix.ts: the dependency array of the matrix memo,
\* [state.colors, state.targetLevel]; React compares the array by identity.
matrixDeps_colorsOnly(ref, s) == <<ref>>

matrixDeps(ref, s) == <<ref, s.targetLevel>>

\* ------------------------------------------------------------------ state
\* ---------------------------------------------------------------------------
\* utils.ts: a string is a sequence of one-character strings.

\* [0-9A-Fa-f]
HexClass ==
  {"0", "1", "2", "3", "4", "5", "6", "7", "8", "9",
   "A", "B", "C", "D", "E", "F", "a", "b", "c", "d", "e", "f"}

\* [0-9A-Fa-f]{n} matched at position from
matchesRun(value, from, n) ==
  /\ from + n - 1 <= Len(value)
  /\ \A i \in from..(from + n - 1) : value[i] \in HexClass

\* ([0-9A-Fa-f]{3}|[0-9A-Fa-f]{6})$ matched at position from
matchesBody(value, from) ==
  \E n \in {3, 6} : matchesRun(value, from, n) /\ from + n = Len(value) + 1

startsWithHash(value) == Len(value) >= 1 /\ value[1] = "#"

isValidHex_unanchored(value) ==
  \/ \E n \in {3, 6} : matchesRun(value, 1, n)
  \/ startsWithHash(value) /\ \E n \in {3, 6} : matchesRun(value, 2, n)

\* /^#?([0-9A-Fa-f]{3}|[0-9A-Fa-f]{6})$/.test(value)
isValidHex(value) ==
  \/ matchesBody(value, 1)
  \/ startsWithHash(value) /\ matchesBody(value, 2)

UpperCaseOf ==
  [a |-> "A", b |-> "B", c |-> "C", d |-> "D", e |-> "E", f |-> "F", g |-> "G"]

toUpperCase(s) ==
  [i \in 1..Len(s) |-> IF s[i] \in DOMAIN UpperCaseOf THEN UpperCaseOf[s[i]] ELSE s[i]]

\* hex.split('').map(char => char + char).join('')
doubleChars(hex) == [i \in 1..(2 * Len(hex)) |-> hex[(i + 1) \div 2]]

normalizeHex_repeat(value) ==
  IF ~isValidHex(value) THEN NULL
  ELSE LET hex == IF startsWithHash(value) THEN Tail(value) ELSE value
       IN  IF Len(hex) = 3 THEN toUpperCase(hex \o hex) ELSE toUpperCase(hex)

normalizeHex(value) ==
  IF ~isValidHex(value) THEN NULL
  ELSE LET hex == IF startsWithHash(value) THEN Tail(value) ELSE value
       IN  IF Len(hex) = 3 THEN toUpperCase(doubleChars(hex)) ELSE toUpperCase(hex)

\* Inputs: up to two '#', then up to MaxDigits characters, each a valid
\* lower-case letter, a valid upper-case letter, a digit, or a letter outside
\* the class.
HexPrefixes == {<< >>, <<"#">>, <<"#", "#">>}
HexBodyChars == {"a", "F", "7", "g"}
HexBodies == UNION {[1..n -> HexBodyChars] : n \in 0..MaxDigits}
HexInputs == {pre \o body : pre \in HexPrefixes, body \in HexBodies}

VARIABLES
  pc,             \* what the engine last did or is doing
  foregroundHex,  \* findNearestAccessible: arguments
  backgroundHex,
  targetRatio,
  fg,             \* oklch(fgColor)
  shouldDarken,   \* the direction of the running searchLightness call
  search,         \* the locals of the running searchLightness call
  result,         \* the value findNearestAccessible returned
  colors,         \* generateContrastMatrix: arguments
  targetLevel,
  matrix,         \* the value generateContrastMatrix returned
  summaryLevel,   \* getContrastSummary: argument and value
  summary,
  lookupIds,      \* findContrastResult: arguments and value
  lookup,
  evalRatio,      \* evaluateContrastRatio: argument and value
  evaluation,
  hexInput,       \* isValidHex / normalizeHex: argument and values
  hexValid,
  hexNormalized,
  state,          \* PaletteProvider: the state useReducer holds
  colorsRef,      \* which array object state.colors is (0: the initial one)
  memoDeps,       \* useContrastMatrix: the dependencies of the last computation
  hookMatrix,     \* useContrastMatrix: the matrix and the summary it exposes
  hookSummary,
  appliedFix,     \* ContrastMatrix: the cell whose fix was applied last
  message,        \* AnnouncementProvider: useState('')
  politeness,     \* AnnouncementProvider: useState('polite')
  timers,         \* the pending setTimeout callbacks
  now,            \* the clock, in ms
  announced,      \* the messages announce was called with, in order
  currentPalette, \* regeneratePalette: argument (NULL in a call of generatePalette)
  attempts,       \* generatePalette / regeneratePalette: locals
  bestPalette,
  generated       \* the palette the generator returned

vars == <<pc, foregroundHex, backgroundHex, targetRatio, fg, shouldDarken, search,
          result, colors, targetLevel, matrix, summaryLevel, summary, lookupIds, lookup,
          evalRatio, evaluation, hexInput, hexValid, hexNormalized,
          state, colorsRef, memoDeps, hookMatrix, hookSummary, appliedFix,
          message, politeness, timers, now, announced,
          currentPalette, attempts, bestPalette, generated>>

searchVars == <<foregroundHex, backgroundHex, targetRatio, fg, shouldDarken, search, result>>
matrixVars == <<colors, targetLevel, matrix>>
queryVars == <<summaryLevel, summary, lookupIds, lookup>>
utilVars == <<evalRatio, evaluation, hexInput, hexValid, hexNormalized>>
paletteVars == <<state, colorsRef>>
hookVars == <<memoDeps, hookMatrix, hookSummary, appliedFix>>
announceVars == <<message, politeness, timers, now, announced>>
generatorVars == <<currentPalette, attempts, bestPalette, generated>>
appVars == <<paletteVars, hookVars, announceVars, generatorVars>>

\* Nothing is retained between calls: the engine has no state of its own.
NoSearch ==
  /\ foregroundHex' = NULL
  /\ backgroundHex' = NULL
  /\ targetRatio' = 0
  /\ fg' = NULL
  /\ shouldDarken' = FALSE
  /\ search' = NULL
  /\ result' = NULL

NoMatrix ==
  /\ colors' = << >>
  /\ targetLevel' = "AA"
  /\ matrix' = << >>

NoQuery ==
  /\ summaryLevel' = "AA"
  /\ summary' = NULL
  /\ lookupIds' = NULL
  /\ lookup' = NULL

NoUtil ==
  /\ evalRatio' = 0
  /\ evaluation' = NULL
  /\ hexInput' = NULL
  /\ hexValid' = FALSE
  /\ hexNormalized' = NULL

Init ==
  /\ pc = "idle"
  /\ foregroundHex = NULL
  /\ backgroundHex = NULL
  /\ targetRatio = 0
  /\ fg = NULL
  /\ shouldDarken = FALSE
  /\ search = NULL
  /\ result = NULL
  /\ colors = << >>
  /\ targetLevel = "AA"
  /\ matrix = << >>
  /\ summaryLevel = "AA"
  /\ summary = NULL
  /\ lookupIds = NULL
  /\ lookup = NULL
  /\ evalRatio = 0
  /\ evaluation = NULL
  /\ hexInput = NULL
  /\ hexValid = FALSE
  /\ hexNormalized = NULL
  /\ state = initialPaletteState
  /\ colorsRef = 0
  /\ memoDeps = matrixDeps(0, initialPaletteState)
  /\ appliedFix = NULL
  /\ message = ""
  /\ politeness = "polite"
  /\ timers = {}
  /\ now = 0
  /\ announced = << >>
  /\ currentPalette = NULL
  /\ attempts = 0
  /\ bestPalette = NULL
  /\ generated = NULL
  /\ hookMatrix = generateContrastMatrix(initialPaletteState.colors,
                                         initialPaletteState.targetLevel)
  /\ hookSummary = getContrastSummary(
                     generateContrastMatrix(initialPaletteState.colors,
                                            initialPaletteState.targetLevel),
                     initialPaletteState.targetLevel)

\* One call per behaviour, from the idle engine.
Callable == pc = "idle"

\* findNearestAccessible, lines 47-64: the pair already passes.
ReturnOriginal(f, b, t) ==
  /\ Callable
  /\ alreadyPasses(wcagContrast(f, b), t)
  /\ pc' = "returned"
  /\ foregroundHex' = f
  /\ backgroundHex' = b
  /\ targetRatio' = t
  /\ fg' = oklch(f)
  /\ shouldDarken' = FALSE
  /\ search' = NULL
  /\ result' = f
  /\ NoMatrix /\ NoQuery /\ NoUtil
  /\ UNCHANGED appVars

\* findNearestAccessible, lines 47-77 and 106-109: the search in the primary
\* direction starts.
StartPrimary(f, b, t) ==
  /\ Callable
  /\ ~alreadyPasses(wcagContrast(f, b), t)
  /\ pc' = "primary"
  /\ foregroundHex' = f
  /\ backgroundHex' = b
  /\ targetRatio' = t
  /\ fg' = oklch(f)
  /\ shouldDarken' = primaryDirection(oklch(f), b)
  /\ search' = searchInit(oklch(f), primaryDirection(oklch(f), b))
  /\ result' = NULL
  /\ NoMatrix /\ NoQuery /\ NoUtil
  /\ UNCHANGED appVars

\* searchLightness, lines 111-140: one iteration of the loop.
SearchStep ==
  /\ pc \in {"primary", "opposite"}
  /\ loopCondition(search)
  /\ search' = searchIteration(fg, backgroundHex, targetRatio, shouldDarken, search)
  /\ UNCHANGED <<pc, foregroundHex, backgroundHex, targetRatio, fg, shouldDarken, result>>
  /\ UNCHANGED <<matrixVars, queryVars, utilVars>>
  /\ UNCHANGED appVars

StartOpposite_always ==
  /\ pc = "primary"
  /\ ~loopCondition(search)
  /\ pc' = "opposite"
  /\ shouldDarken' = ~shouldDarken
  /\ search' = searchInit(fg, ~shouldDarken)
  /\ UNCHANGED <<foregroundHex, backgroundHex, targetRatio, fg, result>>
  /\ UNCHANGED <<matrixVars, queryVars, utilVars>>
  /\ UNCHANGED appVars

\* findNearestAccessible, lines 80-82: the primary search returned null.
StartOpposite ==
  /\ pc = "primary"
  /\ ~loopCondition(search)
  /\ search.bestColor = NULL
  /\ pc' = "opposite"
  /\ shouldDarken' = ~shouldDarken
  /\ search' = searchInit(fg, ~shouldDarken)
  /\ UNCHANGED <<foregroundHex, backgroundHex, targetRatio, fg, result>>
  /\ UNCHANGED <<matrixVars, queryVars, utilVars>>
  /\ UNCHANGED appVars

\* findNearestAccessible, lines 84-88: the last search returned.
ReturnResult ==
  /\ pc \in {"primary", "opposite"}
  /\ ~loopCondition(search)
  /\ pc = "primary" => search.bestColor # NULL
  /\ pc' = "returned"
  /\ result' = toResultHex(search.bestColor)
  /\ UNCHANGED <<foregroundHex, backgroundHex, targetRatio, fg, shouldDarken, search>>
  /\ UNCHANGED <<matrixVars, queryVars, utilVars>>
  /\ UNCHANGED appVars

\* generateContrastMatrix(cs, level)
BuildMatrix(cs, level) ==
  /\ Callable
  /\ pc' = "built"
  /\ colors' = cs
  /\ targetLevel' = level
  /\ matrix' = generateContrastMatrix(cs, level)
  /\ NoSearch /\ NoQuery /\ NoUtil
  /\ UNCHANGED appVars

\* getContrastSummary(matrix, level) on the matrix built last
Summarize(level) ==
  /\ pc = "built"
  /\ pc' = "summarized"
  /\ summaryLevel' = level
  /\ summary' = getContrastSummary(matrix, level)
  /\ lookupIds' = NULL
  /\ lookup' = NULL
  /\ UNCHANGED <<searchVars, matrixVars, utilVars>>
  /\ UNCHANGED appVars

\* findContrastResult(matrix, f, b) on the matrix built last
Lookup(f, b) ==
  /\ pc = "built"
  /\ pc' = "looked"
  /\ lookupIds' = <<f, b>>
  /\ lookup' = findContrastResult(matrix, f, b)
  /\ summaryLevel' = "AA"
  /\ summary' = NULL
  /\ UNCHANGED <<searchVars, matrixVars, utilVars>>
  /\ UNCHANGED appVars

\* evaluateContrastRatio(r)
Evaluate(r) ==
  /\ Callable
  /\ pc' = "evaluated"
  /\ evalRatio' = r
  /\ evaluation' = evaluateContrastRatio(r)
  /\ hexInput' = NULL
  /\ hexValid' = FALSE
  /\ hexNormalized' = NULL
  /\ NoSearch /\ NoMatrix /\ NoQuery
  /\ UNCHANGED appVars

\* isValidHex(value)
Validate(value) ==
  /\ Callable
  /\ pc' = "validated"
  /\ hexInput' = value
  /\ hexValid' = isValidHex(value)
  /\ hexNormalized' = NULL
  /\ evalRatio' = 0
  /\ evaluation' = NULL
  /\ NoSearch /\ NoMatrix /\ NoQuery
  /\ UNCHANGED appVars

\* normalizeHex(value)
Normalize(value) ==
  /\ Callable
  /\ pc' = "normalized"
  /\ hexInput' = value
  /\ hexValid' = isValidHex(value)
  /\ hexNormalized' = normalizeHex(value)
  /\ evalRatio' = 0
  /\ evaluation' = NULL
  /\ NoSearch /\ NoMatrix /\ NoQuery
  /\ UNCHANGED appVars

Next ==
  \/ \E f \in Colors, b \in Colors, t \in TargetRatios : ReturnOriginal(f, b, t)
  \/ \E f \in Colors, b \in Colors, t \in TargetRatios : StartPrimary(f, b, t)
  \/ SearchStep
  \/ StartOpposite
  \/ ReturnResult
  \/ \E cs \in Palettes, level \in Levels : BuildMatrix(cs, level)
  \/ \E level \in Levels : Summarize(level)
  \/ \E f \in LookupIds, b \in LookupIds : Lookup(f, b)
  \/ \E r \in EvalRatios : Evaluate(r)

Spec == Init /\ [][Next]_vars

\* The stepwise search and the function findNearestAccessible agree.
HexNext ==
  \/ Callable /\ \E value \in HexInputs : Validate(value)
  \/ Callable /\ \E value \in HexInputs : Normalize(value)

HexSpec == Init /\ [][HexNext]_vars

\* One call of findNearestAccessible, run to its return: the loop and the
\* statements after it are sequential code, so each enabled step is taken.
SearchNext ==
  \/ \E f \in Colors, b \in Colors, t \in TargetRatios : ReturnOriginal(f, b, t)
  \/ \E f \in Colors, b \in Colors, t \in TargetRatios : StartPrimary(f, b, t)
  \/ SearchStep
  \/ StartOpposite
  \/ ReturnResult

\* while (iterations < MAX_ITERATIONS && high - low > LIGHTNESS_PRECISION)
LoopContinues == pc \in {"primary", "opposite"} /\ loopCondition(search)

\* if (!result), after the primary search
PrimaryFailed ==
  pc = "primary" /\ ~loopCondition(search) /\ search.bestColor = NULL

\* the statements after the last search
SearchDone ==
  /\ pc \in {"primary", "opposite"}
  /\ ~loopCondition(search)
  /\ pc = "primary" => search.bestColor # NULL

\* Weak fairness of the three steps, WF_vars(SearchStep), WF_vars(StartOpposite)
\* and WF_vars(ReturnResult), each with the condition that enables the step
\* written as the state predicate it is.
SearchSpec ==
  /\ Init
  /\ [][SearchNext]_vars
  /\ (<>[]LoopContinues => []<><<SearchStep>>_vars)
  /\ (<>[]PrimaryFailed => []<><<StartOpposite>>_vars)
  /\ (<>[]SearchDone => []<><<ReturnResult>>_vars)

\* Calls of findNearestAccessible on saturated colours whose only lightness
\* that reaches the target is an end of the range.
EdgeForegrounds == {<<134, 84, 255>>, <<36, 3, 234>>}
EdgeBackgrounds == {<<129, 8, 152>>, <<244, 38, 92>>, WHITE}

EdgeNext ==
  \/ \E f \in EdgeForegrounds, b \in EdgeBackgrounds, t \in TargetRatios :
       ReturnOriginal(f, b, t)
  \/ \E f \in EdgeForegrounds, b \in EdgeBackgrounds, t \in TargetRatios :
       StartPrimary(f, b, t)
  \/ SearchStep
  \/ StartOpposite
  \/ ReturnResult

EdgeSpec == Init /\ [][EdgeNext]_vars

StepwiseAgrees ==
  pc = "returned" => result = findNearestAccessible(foregroundHex, backgroundHex, targetRatio)

\* ----------------------------------------------------------------- claims
\* The pair the running or finished findNearestAccessible call was given
\* fails the target, and a search was made.
Searched == pc = "returned" /\ search # NULL

\* C1. Fix validity: whenever findNearestAccessible returns a hex, the WCAG
\* contrast ratio of that hex (as returned, after conversion and clamping)
\* against the background is at least the target ratio.
FixValidity ==
  pc = "returned" /\ result # NULL => wcagContrast(result, backgroundHex) >= targetRatio

\* A chromatic foreground was moved by the search, and the returned hex lies
\* on the gamut boundary (a channel was clamped to 0 or 255).
FixValidityWitness ==
  /\ Searched
  /\ result # NULL
  /\ result # foregroundHex
  /\ fg[2] # 0
  /\ \E ch \in 1..3 : result[ch] \in {0, 255}
  /\ wcagContrast(result, backgroundHex) >= targetRatio

\* C2 as stated. Idempotence on the rounded ratio: if calculateContrast(fg, bg)
\* (two decimals) is at least the target, findNearestAccessible returns fg.
IdempotenceOnRoundedRatio ==
  pc = "returned" /\ calculateContrast(foregroundHex, backgroundHex) * 10000 >= targetRatio
    => result = foregroundHex

\* C2, amended. Idempotence on the unrounded ratio: if wcagContrast(fg, bg) is
\* at least the target, findNearestAccessible returns fg itself, unchanged.
IdempotenceOnExactRatio ==
  pc = "returned" /\ wcagContrast(foregroundHex, backgroundHex) >= targetRatio
    => result = foregroundHex

\* A passing pair came back unchanged and without any search.
IdempotenceWitness ==
  /\ pc = "returned"
  /\ wcagContrast(foregroundHex, backgroundHex) >= targetRatio
  /\ foregroundHex # backgroundHex
  /\ search = NULL
  /\ result = foregroundHex

\* Lightness samples of [0,1], 0.004 apart.
LightnessGrid == {k * 4000 : k \in 0..250}

\* The foreground at lightness l reaches the target against the background.
ReachesAt(l) ==
  wcagContrast(formatHex(<<l, fg[2], fg[3]>>), backgroundHex) >= targetRatio

\* C3. Minimal change: the lightness of a colour found for a failing pair is,
\* up to the search precision, the one nearest to the original lightness
\* among all lightnesses of [0,1], in either direction, that reach the target.
MinimalChange ==
  Searched /\ result # NULL =>
    \A l \in LightnessGrid :
      ReachesAt(l) =>
        Abs(l - fg[1]) >= Abs(search.bestColor[1] - fg[1]) - LIGHTNESS_PRECISION

\* No colour reaches 21 : 1 against bg: neither black nor white does.
MidRange(bg) ==
  /\ wcagContrast(WHITE, bg) < 21 * Unit
  /\ wcagContrast(BLACK, bg) < 21 * Unit

\* C4. Unreachable target: against a mid-range background a target of 21
\* makes findNearestAccessible return null, after at most MAX_ITERATIONS
\* iterations of either search.
UnreachableTarget ==
  targetRatio = 21 * Unit /\ backgroundHex # NULL /\ MidRange(backgroundHex) =>
    /\ pc = "returned" => result = NULL
    /\ search # NULL => search.iterations <= MAX_ITERATIONS

\* Both directions were searched for 21 : 1 and null came back.
UnreachableTargetWitness ==
  /\ Searched
  /\ targetRatio = 21 * Unit
  /\ MidRange(backgroundHex)
  /\ shouldDarken # primaryDirection(fg, backgroundHex)
  /\ search.iterations > 0
  /\ result = NULL

\* The entry of the built matrix for the i-th colour on the j-th colour.
EntryAt(i, j) == matrix[(i - 1) * Len(colors) + j]

Positions == 1..Len(colors)

DistinctIds == \A i, j \in Positions : colors[i].id = colors[j].id => i = j

PassesLevel(r, level) == IF level = "AA" THEN r.passesAA ELSE r.passesAAA

\* C5. Definition of the suggestion: suggestedFix is the colour
\* findNearestAccessible gives for the level's ratio (4.5 for AA, 7 for AAA)
\* when the pair fails the level's normal-text flag and the two ids differ,
\* and null otherwise; equal ids never carry a suggestion.
SuggestionDefinition ==
  pc = "built" =>
    \A i, j \in Positions :
      LET r == EntryAt(i, j)
      IN  r.suggestedFix =
            IF ~PassesLevel(r, targetLevel) /\ colors[i].id # colors[j].id
            THEN findNearestAccessible(colors[i].hex, colors[j].hex,
                                       IF targetLevel = "AA" THEN 4500000 ELSE 7000000)
            ELSE NULL

\* One matrix holds a failing pair with a suggestion and a failing pair of
\* equal ids but different hex values, without one.
SuggestionDefinitionWitness ==
  /\ pc = "built"
  /\ \E i, j \in Positions :
       /\ colors[i].id # colors[j].id
       /\ ~PassesLevel(EntryAt(i, j), targetLevel)
       /\ EntryAt(i, j).suggestedFix # NULL
  /\ \E i, j \in Positions :
       /\ colors[i].id = colors[j].id
       /\ colors[i].hex # colors[j].hex
       /\ ~PassesLevel(EntryAt(i, j), targetLevel)
       /\ EntryAt(i, j).suggestedFix = NULL

\* Ordered pairs of positions whose ids differ / differ while the hex is shared.
NonSelfPositions == {q \in Positions \X Positions : colors[q[1]].id # colors[q[2]].id}
TwinPositions == {q \in NonSelfPositions : colors[q[1]].hex = colors[q[2]].hex}

\* C6. A self-pair is a pair of equal ids: two entries with different ids and
\* one hex give results of ratio 1.00 that fail, are handed to the search for
\* a suggestion, and are counted by the summary, which leaves out exactly the
\* results whose two ids are equal.
SelfPairById ==
  /\ pc = "built" =>
       \A q \in TwinPositions :
         LET r == EntryAt(q[1], q[2])
         IN  /\ r.ratio = 100
             /\ ~r.passesAA /\ ~r.passesAAA
             /\ r.suggestedFix =
                  findNearestAccessible(colors[q[1]].hex, colors[q[2]].hex,
                                        getTargetRatio(targetLevel, FALSE))
  /\ pc = "summarized" =>
       /\ summary.total = Cardinality(NonSelfPositions)
       /\ summary.failing >= Cardinality(TwinPositions)

\* A summary over a palette with two ids on one hex.
SelfPairByIdWitness ==
  /\ pc = "summarized"
  /\ TwinPositions # {}
  /\ summary.total = Cardinality(NonSelfPositions)
  /\ summary.total > 0
  /\ \E q \in TwinPositions : EntryAt(q[1], q[2]).suggestedFix # NULL

\* C7. Matrix completeness: N colours give N * N results; with pairwise
\* distinct ids every ordered pair of ids, self-pairs included, is in exactly
\* one result.
MatrixCompleteness ==
  pc = "built" =>
    /\ Len(matrix) = Len(colors) * Len(colors)
    /\ DistinctIds =>
         \A i, j \in Positions :
           Cardinality({k \in 1..Len(matrix) :
                          /\ matrix[k].foregroundId = colors[i].id
                          /\ matrix[k].backgroundId = colors[j].id}) = 1

MatrixCompletenessWitness ==
  /\ pc = "built"
  /\ Len(colors) = 3
  /\ DistinctIds
  /\ Len(matrix) = 9

\* C8. Summary: total counts the results of unequal ids (N * N - N for N
\* distinct ids), passing those of them whose flag for the level is set,
\* failing = total - passing, percentage = round(100 * passing / total), an
\* integer of 0..100, and 0 when total is 0.
SummaryCounts ==
  pc = "summarized" =>
    LET nonSelf == {k \in 1..Len(matrix) : matrix[k].foregroundId # matrix[k].backgroundId}
        passed == {k \in nonSelf : PassesLevel(matrix[k], summaryLevel)}
    IN  /\ summary.total = Cardinality(nonSelf)
        /\ DistinctIds => summary.total = Len(colors) * Len(colors) - Len(colors)
        /\ summary.passing = Cardinality(passed)
        /\ summary.failing = summary.total - summary.passing
        /\ summary.percentage \in 0..100
        /\ summary.total = 0 => summary.percentage = 0
        /\ summary.total > 0 =>
             /\ 2 * summary.percentage * summary.total <= 200 * summary.passing + summary.total
             /\ 200 * summary.passing + summary.total < 2 * (summary.percentage + 1) * summary.total

\* Four of six pairs pass: 66.67 is rounded up to 67.
SummaryCountsWitness ==
  /\ pc = "summarized"
  /\ DistinctIds
  /\ summary.total = 6
  /\ summary.passing = 4
  /\ summary.failing = 2
  /\ summary.percentage = 67

PaletteIds == {colors[i].id : i \in Positions}

\* C9. Lookup: findContrastResult(matrix, f, b) gives a result of foreground f
\* and background b, never the entry (b, f), and undefined exactly when no
\* entry has these ids; over distinct ids it finds every ordered pair of
\* palette ids and nothing for an id outside the palette.
LookupExact ==
  pc = "looked" =>
    LET f == lookupIds[1]
        b == lookupIds[2]
        present == \E k \in 1..Len(matrix) :
                      matrix[k].foregroundId = f /\ matrix[k].backgroundId = b
    IN  /\ lookup # NULL => lookup.foregroundId = f /\ lookup.backgroundId = b
        /\ lookup = NULL <=> ~present
        /\ DistinctIds => (lookup # NULL <=> f \in PaletteIds /\ b \in PaletteIds)
        /\ DistinctIds /\ lookup # NULL =>
             \E i, j \in Positions :
               colors[i].id = f /\ colors[j].id = b /\ lookup = EntryAt(i, j)

\* The entry (b, a) is looked up where (a, b) comes first and differs.
LookupExactWitness ==
  /\ pc = "looked"
  /\ DistinctIds
  /\ lookupIds = <<"b", "a">>
  /\ lookup # NULL
  /\ lookup.foregroundId = "b" /\ lookup.backgroundId = "a"
  /\ lookup.suggestedFix # findContrastResult(matrix, "a", "b").suggestedFix

\* C10. Symmetry: calculateContrast(a, b) = calculateContrast(b, a); the
\* entries (f, b) and (b, f) of a matrix carry one ratio and the same flags.
Symmetry ==
  /\ pc = "built" =>
       \A i, j \in Positions :
         /\ calculateContrast(colors[i].hex, colors[j].hex)
              = calculateContrast(colors[j].hex, colors[i].hex)
         /\ EntryAt(i, j).ratio = EntryAt(j, i).ratio
         /\ EntryAt(i, j).passesAA = EntryAt(j, i).passesAA
         /\ EntryAt(i, j).passesAAA = EntryAt(j, i).passesAAA
         /\ EntryAt(i, j).passesAALarge = EntryAt(j, i).passesAALarge
         /\ EntryAt(i, j).passesUIComponent = EntryAt(j, i).passesUIComponent
  /\ foregroundHex # NULL =>
       calculateContrast(foregroundHex, backgroundHex)
         = calculateContrast(backgroundHex, foregroundHex)

\* Grey on white and white on grey, 4.54 both ways.
SymmetryWitness ==
  /\ pc = "built"
  /\ \E i, j \in Positions :
       /\ colors[i].hex # colors[j].hex
       /\ EntryAt(i, j).ratio = 454
       /\ EntryAt(j, i).ratio = 454

AllFlagsFail(r) ==
  ~r.passesAA /\ ~r.passesAAA /\ ~r.passesAALarge /\ ~r.passesUIComponent

\* C11 as stated. Identity: calculateContrast(x, x) = 1.00, and every entry of
\* a built matrix whose two ids are equal has ratio 1.00 and fails every flag.
IdentityOfEqualIds ==
  /\ foregroundHex # NULL => calculateContrast(foregroundHex, foregroundHex) = 100
  /\ pc = "built" =>
       \A k \in 1..Len(matrix) :
         matrix[k].foregroundId = matrix[k].backgroundId =>
           matrix[k].ratio = 100 /\ AllFlagsFail(matrix[k])

\* C11, amended. Identity: calculateContrast(x, x) = 1.00; every entry of a
\* built matrix for two entries of one hex, in particular every diagonal
\* entry, and every entry of equal ids when the ids are pairwise distinct,
\* has ratio 1.00 and fails every flag.
IdentityOfEqualHex ==
  /\ foregroundHex # NULL => calculateContrast(foregroundHex, foregroundHex) = 100
  /\ pc = "built" =>
       /\ \A i, j \in Positions :
            colors[i].hex = colors[j].hex =>
              /\ calculateContrast(colors[i].hex, colors[j].hex) = 100
              /\ EntryAt(i, j).ratio = 100
              /\ AllFlagsFail(EntryAt(i, j))
       /\ DistinctIds =>
            \A k \in 1..Len(matrix) :
              matrix[k].foregroundId = matrix[k].backgroundId =>
                matrix[k].ratio = 100 /\ AllFlagsFail(matrix[k])

\* Three distinct ids: 1.00 on the diagonal, something else off it.
IdentityWitness ==
  /\ pc = "built"
  /\ Len(colors) = 3
  /\ DistinctIds
  /\ \A i \in Positions : EntryAt(i, i).ratio = 100 /\ AllFlagsFail(EntryAt(i, i))
  /\ \E i, j \in Positions : EntryAt(i, j).ratio # 100

\* C12. Range: calculateContrast lies in 1.00 .. 21.00, is the unrounded
\* ratio rounded to two decimals (at most 0.005 away from it), and is 21.00
\* for black against white.
RatioRange ==
  /\ foregroundHex # NULL =>
       LET c == calculateContrast(foregroundHex, backgroundHex)
           w == wcagContrast(foregroundHex, backgroundHex)
       IN  /\ c \in 100..2100
           /\ w >= Unit /\ w <= 21 * Unit
           /\ Abs(c * 10000 - w) <= 5000
           /\ {foregroundHex, backgroundHex} = {BLACK, WHITE} => c = 2100
  /\ pc = "built" => \A k \in 1..Len(matrix) : matrix[k].ratio \in 100..2100

RatioRangeWitness ==
  /\ pc = "returned"
  /\ foregroundHex = BLACK
  /\ backgroundHex = WHITE
  /\ calculateContrast(foregroundHex, backgroundHex) = 2100

\* C13. Threshold evaluation: passesAA = (r >= 4.5), passesAAA = (r >= 7),
\* passesAALarge = (r >= 3), passesUIComponent = (r >= 3), a ratio on a
\* threshold passing; passesAAA implies passesAA.
ThresholdEvaluation ==
  /\ pc = "evaluated" =>
       /\ evaluation.passesAA <=> evalRatio >= 450
       /\ evaluation.passesAAA <=> evalRatio >= 700
       /\ evaluation.passesAALarge <=> evalRatio >= 300
       /\ evaluation.passesUIComponent <=> evalRatio >= 300
       /\ evaluation.passesAAA => evaluation.passesAA
  /\ pc = "built" =>
       \A k \in 1..Len(matrix) :
         /\ matrix[k].passesAA <=> matrix[k].ratio >= 450
         /\ matrix[k].passesAAA <=> matrix[k].ratio >= 700
         /\ matrix[k].passesAALarge <=> matrix[k].ratio >= 300
         /\ matrix[k].passesUIComponent <=> matrix[k].ratio >= 300

\* A ratio of exactly 4.50 passes AA and not AAA.
ThresholdEvaluationWitness ==
  /\ pc = "evaluated"
  /\ evalRatio = 450
  /\ evaluation.passesAA
  /\ ~evaluation.passesAAA

\* C14 as stated. The large-text and UI flags are independent of the
\* normal-text flags: some ratio passes AA without passing AA-large or the
\* UI-component flag, and some ratio passes AA-large without passing AA.
FlagsIndependent ==
  pc = "evaluated" =>
    /\ \E r \in EvalRatios :
         /\ evaluateContrastRatio(r).passesAA
         /\ ~evaluateContrastRatio(r).passesAALarge \/ ~evaluateContrastRatio(r).passesUIComponent
    /\ \E r \in EvalRatios :
         evaluateContrastRatio(r).passesAALarge /\ ~evaluateContrastRatio(r).passesAA

\* C14, amended. passesAA (and so passesAAA) implies passesAALarge and
\* passesUIComponent, which are equal; neither implies passesAA: a ratio of
\* 3.00 .. 4.49 passes both and fails AA.
LargeFlagsBelowNormal ==
  pc = "evaluated" =>
    /\ evaluation.passesAA => evaluation.passesAALarge /\ evaluation.passesUIComponent
    /\ evaluation.passesAAA => evaluation.passesAALarge /\ evaluation.passesUIComponent
    /\ evaluation.passesAALarge <=> evaluation.passesUIComponent
    /\ evalRatio \in 300..449 => evaluation.passesAALarge /\ ~evaluation.passesAA

LargeFlagsWitness ==
  /\ pc = "evaluated"
  /\ evalRatio = 350
  /\ evaluation.passesAALarge
  /\ evaluation.passesUIComponent
  /\ ~evaluation.passesAA

\* C15. Primary direction: darken, over [0, fg.l], when the foreground is
\* lighter than the background, lighten, over [fg.l, 1], otherwise; and a
\* move in the primary direction takes the foreground lightness away from
\* the background lightness.
PrimaryPushesApart ==
  pc = "primary" =>
    LET bgLightness == oklch(backgroundHex)[1]
    IN  /\ shouldDarken <=> fg[1] > bgLightness
        /\ search.iterations = 0 =>
             /\ shouldDarken => search.low = 0 /\ search.high = fg[1]
             /\ ~shouldDarken => search.low = fg[1] /\ search.high = Unit
        /\ shouldDarken => fg[1] <= bgLightness
        /\ ~shouldDarken => fg[1] >= bgLightness

\* C16. Darker fix on white: a foreground darker than a white background
\* that fails 4.5 against it gets a colour that reaches 4.5 and whose
\* lightness is strictly below the original's.
DarkerFixOnWhite ==
  /\ pc = "returned"
  /\ backgroundHex = WHITE
  /\ targetRatio = 4500000
  /\ fg[1] < oklch(WHITE)[1]
  /\ wcagContrast(foregroundHex, WHITE) < targetRatio
  => /\ result # NULL
     /\ wcagContrast(result, WHITE) >= targetRatio
     /\ search.bestColor[1] < fg[1]
     /\ oklch(result)[1] < fg[1]

\* D1D5DB on FFFFFF.
DarkerFixOnWhiteWitness ==
  /\ pc = "returned"
  /\ foregroundHex = <<209, 213, 219>>
  /\ backgroundHex = WHITE
  /\ targetRatio = 4500000
  /\ result # NULL
  /\ result # foregroundHex
  /\ oklch(result)[1] < fg[1]

UpperHexDigits ==
  {"0", "1", "2", "3", "4", "5", "6", "7", "8", "9", "A", "B", "C", "D", "E", "F"}

AllHexDigits == UpperHexDigits \cup {"a", "b", "c", "d", "e", "f"}

\* The input without its single leading '#', if it has one.
HexBody(s) == IF Len(s) >= 1 /\ s[1] = "#" THEN SubSeq(s, 2, Len(s)) ELSE s

\* C17. Hex validity: isValidHex(s) is true exactly when s is an optional
\* single leading '#' followed by exactly 3 or exactly 6 characters of
\* 0-9a-fA-F, with nothing before or after.
HexValidity ==
  pc \in {"validated", "normalized"} =>
    (hexValid <=>
      /\ Len(HexBody(hexInput)) \in {3, 6}
      /\ \A i \in 1..Len(HexBody(hexInput)) : HexBody(hexInput)[i] \in AllHexDigits)

\* A valid input with a '#', and the validator has rejected inputs too.
HexValidityWitness ==
  /\ pc = "validated"
  /\ hexValid
  /\ hexInput = <<"#", "a", "F", "7">>

\* C18. Normalization: normalizeHex(s) is null exactly when isValidHex(s) is
\* false; otherwise it is 6 upper-case hex digits without '#', a 3-digit
\* input having each digit doubled in place and a 6-digit input keeping its
\* digits, upper-cased.
Normalization ==
  pc = "normalized" =>
    /\ hexNormalized = NULL <=> ~isValidHex(hexInput)
    /\ hexNormalized # NULL =>
         LET body == HexBody(hexInput)
         IN  /\ Len(hexNormalized) = 6
             /\ \A i \in 1..6 : hexNormalized[i] \in UpperHexDigits
             /\ Len(body) = 3 =>
                  \A i \in 1..3 :
                    /\ hexNormalized[2 * i - 1] = toUpperCase(body)[i]
                    /\ hexNormalized[2 * i] = toUpperCase(body)[i]
             /\ Len(body) = 6 => hexNormalized = toUpperCase(body)

\* "#aF7" becomes "AAFF77".
NormalizationWitness ==
  /\ pc = "normalized"
  /\ hexInput = <<"#", "a", "F", "7">>
  /\ hexNormalized = <<"A", "A", "F", "F", "7", "7">>

Searching == pc \in {"primary", "opposite"}

SearchWidth(s) == s.high - s.low

\* One iteration of the loop in searchLightness.
IterationStep ==
  /\ Searching
  /\ pc' = pc
  /\ search' # search

\* C19. Termination: a search makes at most MAX_ITERATIONS iterations, an
\* iteration is made only while high - low exceeds the precision and halves
\* it, a call runs the primary search and then at most the opposite one, and
\* every call that starts searching returns.
Termination ==
  /\ [](Searching \/ (pc = "returned" /\ search # NULL) =>
         search.iterations \in 0..MAX_ITERATIONS)
  /\ [][IterationStep =>
          /\ search.iterations < MAX_ITERATIONS
          /\ SearchWidth(search) > LIGHTNESS_PRECISION
          /\ search'.iterations = search.iterations + 1
          /\ SearchWidth(search') >= 0
          /\ SearchWidth(search') <= (SearchWidth(search) + 1) \div 2]_vars
  /\ [][(pc = "primary" => pc' \in {"primary", "opposite", "returned"})
         /\ (pc = "opposite" => pc' \in {"opposite", "returned"})
         /\ (pc = "returned" => pc' = "returned")]_vars
  /\ (Searching ~> pc = "returned")

\* Both searches ran, each stopped on the precision, and the call returned.
TerminationWitness ==
  /\ pc = "returned"
  /\ search # NULL
  /\ shouldDarken # primaryDirection(fg, backgroundHex)
  /\ search.iterations \in 1..(MAX_ITERATIONS - 1)
  /\ SearchWidth(search) <= LIGHTNESS_PRECISION

\* C21. Search completeness: findNearestAccessible returns null only if no
\* lightness of [0,1], the ends 0 and 1 included, reaches the target with
\* the foreground's chroma and hue.
SearchCompleteness ==
  Searched /\ result = NULL => \A l \in LightnessGrid : ~ReachesAt(l)

\* The midpoint the next iteration tests, and whether it reaches the target.
NextMid == (search.low + search.high) \div 2

NextMidPasses == ReachesAt(NextMid)

\* C22. Binary-search candidate: 0 <= low <= high <= 1 throughout; a
\* candidate is recorded exactly for a tested midpoint that reaches the
\* target, and is strictly closer to the original lightness than the
\* candidate before it; so the candidate held is a tested midpoint that
\* reaches the target, and none is held only while no midpoint passed.
BinarySearchCandidate ==
  /\ [](search # NULL =>
         /\ 0 <= search.low /\ search.low <= search.high /\ search.high <= Unit
         /\ search.bestColor # NULL =>
              /\ ReachesAt(search.bestColor[1])
              /\ search.bestColor[1] \in {search.low, search.high}
              /\ search.bestColor[2] = fg[2] /\ search.bestColor[3] = fg[3])
  /\ [][IterationStep =>
          /\ NextMidPasses =>
               /\ search'.bestColor = <<NextMid, fg[2], fg[3]>>
               /\ search.bestColor # NULL =>
                    Abs(NextMid - fg[1]) < Abs(search.bestColor[1] - fg[1])
               /\ IF shouldDarken
                  THEN search'.low = NextMid /\ search'.high = search.high
                  ELSE search'.high = NextMid /\ search'.low = search.low
          /\ ~NextMidPasses =>
               /\ search'.bestColor = search.bestColor
               /\ IF shouldDarken
                  THEN search'.high = NextMid /\ search'.low = search.low
                  ELSE search'.low = NextMid /\ search'.high = search.high]_vars

\* A second candidate replaced a first one, and a later midpoint failed.
BinarySearchCandidateWitness ==
  /\ Searching
  /\ search.iterations >= 3
  /\ search.bestColor # NULL
  /\ search.bestColor[1] # NextMid
  /\ ~NextMidPasses
  /\ Abs(search.bestColor[1] - fg[1]) < Abs(fg[1] - (IF shouldDarken THEN 0 ELSE Unit)) \div 2

\* C23. Order of the two searches: the opposite direction is searched only
\* after the primary search ended without a candidate; a primary search that
\* ends with a candidate is followed by the return of that candidate's hex.
SearchOrder ==
  /\ [](pc = "opposite" =>
         /\ shouldDarken # primaryDirection(fg, backgroundHex)
         /\ searchLightness(fg, backgroundHex, targetRatio,
                             primaryDirection(fg, backgroundHex)) = NULL)
  /\ [][pc = "primary" /\ pc' = "opposite" =>
          /\ search.bestColor = NULL
          /\ SearchWidth(search) <= LIGHTNESS_PRECISION
               \/ search.iterations = MAX_ITERATIONS]_vars
  /\ [][pc = "primary" /\ pc' = "primary" =>
          shouldDarken' = shouldDarken /\ shouldDarken = primaryDirection(fg, backgroundHex)]_vars
  /\ [][pc = "primary" /\ search.bestColor # NULL /\ pc' # "primary" =>
          /\ pc' = "returned"
          /\ result' = formatHex(search.bestColor)
          /\ search' = search
          /\ shouldDarken' = shouldDarken]_vars

\* The primary search found a candidate and its hex was returned.
SearchOrderWitness ==
  /\ pc = "returned"
  /\ search # NULL
  /\ shouldDarken = primaryDirection(fg, backgroundHex)
  /\ result = formatHex(search.bestColor)
  /\ result # foregroundHex


\* ---------------------------------------------------------------------------
\* The palette state under the actions the components dispatch.

\* dispatch(action) of useReducer(paletteReducer, initialPaletteState)
Dispatch(action) ==
  /\ state' = paletteReducer(state, action)
  /\ colorsRef' = colorsOf(state, colorsRef, memoDeps[1], action)

\* crypto.randomUUID(): an id no colour of the palette has
randomUUID(entries) ==
  CHOOSE n \in 1..(Len(entries) + 1) : \A i \in 1..Len(entries) : entries[i].id # n

\* ColorList.handleAddColor: the colour the "Add color" button adds
newColor(entries) ==
  [id |-> randomUUID(entries), hex |-> BLACK, label |-> "New Color",
   role |-> "custom", locked |-> FALSE]

\* ColorGrid.handleDrop: the first colour dragged behind the last one
reordered(entries) == Tail(entries) \o <<Head(entries)>>

\* lib/palette/actions.ts
addColor(color) == [type |-> "ADD_COLOR", payload |-> color]
removeColor(id) == [type |-> "REMOVE_COLOR", payload |-> [id |-> id]]
updateColor(id, updates) ==
  [type |-> "UPDATE_COLOR", payload |-> [id |-> id, updates |-> updates]]
setContrastStandard(standard) == [type |-> "SET_CONTRAST_STANDARD", payload |-> standard]
setTargetLevel(level) == [type |-> "SET_TARGET_LEVEL", payload |-> level]
setMode(mode) == [type |-> "SET_MODE", payload |-> mode]
resetPalette == [type |-> "RESET_PALETTE"]
\* types/index.ts: { type: 'REPLACE_COLORS'; payload: ColorEntry[] }
replaceColors(entries) == [type |-> "REPLACE_COLORS", payload |-> entries]

\* The ids a remove is dispatched with, the last colour of the palette and
\* an id no colour has, and the ids an update is dispatched with.
RemoveIds == {state.colors[Len(state.colors)].id, 0}
UpdateIds == {state.colors[1].id, 0}

\* The provider alone: no component that reads the matrix is mounted.
DispatchOnly(action) ==
  /\ Dispatch(action)
  /\ UNCHANGED <<pc, searchVars, matrixVars, queryVars, utilVars, hookVars, announceVars, generatorVars>>

PaletteNext ==
  \/ DispatchOnly(addColor(newColor(state.colors)))
  \/ \E id \in RemoveIds : DispatchOnly(removeColor(id))
  \/ \E id \in UpdateIds : DispatchOnly(updateColor(id, [locked |-> TRUE]))
  \/ \E standard \in {"WCAG2", "APCA"} : DispatchOnly(setContrastStandard(standard))
  \/ \E level \in Levels : DispatchOnly(setTargetLevel(level))
  \/ \E mode \in {"light", "dark", "both"} : DispatchOnly(setMode(mode))
  \/ DispatchOnly(resetPalette)
  \/ DispatchOnly(replaceColors(reordered(state.colors)))

PaletteSpec == Init /\ [][PaletteNext]_vars

ReplaceColorsReplaces ==
  LET replaced == paletteReducer(state, replaceColors(reordered(state.colors)))
  IN  /\ replaced.colors = reordered(state.colors)
      /\ replaced.contrastStandard = state.contrastStandard
      /\ replaced.targetLevel = state.targetLevel
      /\ replaced.mode = state.mode


\* ---------------------------------------------------------------------------
\* The palette with the contrast matrix mounted: every interaction dispatches
\* one action and React renders the components again before the next one.

\* useContrastMatrix at the render that follows the dispatch: useMemo keeps
\* the matrix when no dependency changed; the summary depends on the matrix
\* and on the level.
Render ==
  /\ memoDeps' = matrixDeps(colorsRef', state')
  /\ hookMatrix' =
       IF matrixDeps(colorsRef', state') = memoDeps THEN hookMatrix
       ELSE generateContrastMatrix(state'.colors, state'.targetLevel)
  /\ hookSummary' =
       IF matrixDeps(colorsRef', state') = memoDeps THEN hookSummary
       ELSE getContrastSummary(hookMatrix', state'.targetLevel)

\* MatrixCell: primaryPasses
primaryPasses(cell, level) == IF level = "AA" THEN cell.passesAA ELSE cell.passesAAA

\* MatrixCell: the "Fix" button of the cell of foreground and background
fixOffered(cell, foreground, level) ==
  /\ cell.foregroundId # cell.backgroundId
  /\ ~primaryPasses(cell, level)
  /\ cell.suggestedFix # NULL
  /\ ~foreground.locked

\* ContrastMatrix: the cell rendered for the i-th colour on the j-th:
\* getResult(fgColor.id, bgColor.id)
cellOf(i, j) == findContrastResult(hookMatrix, state.colors[i].id, state.colors[j].id)

\* Two interactions per session.
Interactive == pc \in {"idle", "rendered"}

Interact(action, cell) ==
  /\ Interactive
  /\ pc' = IF pc = "idle" THEN "rendered" ELSE "settled"
  /\ Dispatch(action)
  /\ Render
  /\ appliedFix' = cell
  /\ UNCHANGED <<searchVars, matrixVars, queryVars, utilVars, announceVars, generatorVars>>

\* ContrastMatrix.handleApplyFix(colorId, newHex), from the button of a cell
ApplyFix(i, j) ==
  /\ Interactive
  /\ cellOf(i, j) # NULL
  /\ fixOffered(cellOf(i, j), state.colors[i], state.targetLevel)
  /\ Interact(updateColor(state.colors[i].id, [hex |-> cellOf(i, j).suggestedFix]),
              <<state.colors[i].id, state.colors[j].id>>)

HookNext ==
  \/ Interactive /\ Interact(addColor(newColor(state.colors)), NULL)
  \/ Interactive /\ \E id \in RemoveIds : Interact(removeColor(id), NULL)
  \/ Interactive /\ \E id \in UpdateIds : Interact(updateColor(id, [locked |-> TRUE]), NULL)
  \/ Interactive /\ \E i \in 1..Len(state.colors), j \in 1..Len(state.colors) : ApplyFix(i, j)
  \/ Interactive /\ Interact(setContrastStandard("APCA"), NULL)
  \/ Interactive /\ \E level \in Levels : Interact(setTargetLevel(level), NULL)
  \/ Interactive /\ Interact(setMode("dark"), NULL)
  \/ Interactive /\ Interact(resetPalette, NULL)
  \/ Interactive /\ Interact(replaceColors(reordered(state.colors)), NULL)

HookSpec == Init /\ [][HookNext]_vars

FixResolvesPair ==
  /\ appliedFix # NULL =>
       LET cell == findContrastResult(hookMatrix, appliedFix[1], appliedFix[2])
       IN  /\ cell # NULL
           /\ primaryPasses(cell, state.targetLevel)
           /\ cell.suggestedFix = NULL
  /\ \A i \in 1..Len(state.colors), j \in 1..Len(state.colors) :
       fixOffered(cellOf(i, j), state.colors[i], state.targetLevel) =>
         /\ ~state.colors[i].locked
         /\ ~primaryPasses(cellOf(i, j), state.targetLevel)

FixResolvesPairWitness ==
  /\ appliedFix # NULL
  /\ state.targetLevel = "AAA"
  /\ \E i \in 1..Len(state.colors) : state.colors[i].id = appliedFix[1]


\* ---------------------------------------------------------------------------
\* lib/announcements/context.tsx: the live region's message and the timers
\* announce starts.

\* setTimeout(..., 100) and setTimeout(..., 1000)
ANNOUNCE_DELAY == 100
CLEAR_DELAY == 1000

\* The n-th call announces the n-th message.
Messages == <<"first", "second", "third", "fourth">>
Politeness == {"polite", "assertive"}
\* Time between two events of the session, in ms.
Delays == {0, 50, 500, 1000}

\* The timer the browser runs next: the earliest due, the oldest first.
nextTimer ==
  CHOOSE t \in timers :
    \A u \in timers : t.due < u.due \/ (t.due = u.due /\ t.id <= u.id)

\* The two timers of a call join the pending ones: announce cancels none.
startTimers(pending, n, msg, at) ==
  pending \cup
  {[id |-> 2 * n - 1, due |-> at + ANNOUNCE_DELAY, value |-> msg],
   [id |-> 2 * n, due |-> at + CLEAR_DELAY, value |-> ""]}

\* announce(msg, level), delay ms after the last event
Announce(level, delay) ==
  /\ Len(announced) < MaxAnnouncements
  /\ \A t \in timers : now + delay <= t.due
  /\ now' = now + delay
  /\ announced' = Append(announced, Messages[Len(announced) + 1])
  /\ message' = ""
  /\ politeness' = level
  /\ timers' = startTimers(timers, Len(announced) + 1,
                           Messages[Len(announced) + 1], now + delay)
  /\ UNCHANGED <<pc, searchVars, matrixVars, queryVars, utilVars, paletteVars, hookVars,
                 generatorVars>>

\* A timer callback runs: setMessage(msg) or setMessage('')
TimerFires ==
  /\ timers # {}
  /\ now' = nextTimer.due
  /\ message' = nextTimer.value
  /\ timers' = timers \ {nextTimer}
  /\ UNCHANGED <<politeness, announced>>
  /\ UNCHANGED <<pc, searchVars, matrixVars, queryVars, utilVars, paletteVars, hookVars,
                 generatorVars>>

AnnounceNext ==
  \/ \E level \in Politeness, delay \in Delays : Announce(level, delay)
  \/ TimerFires

AnnounceSpec == Init /\ [][AnnounceNext]_vars

\* The call of announce whose message is shown.
callOf(msg) == CHOOSE n \in 1..Len(announced) : announced[n] = msg

\* C30: a message that is shown stays until the clear timer of its own call
\* fires or announce is called again; the clear timer of an earlier call never
\* blanks the message of a later one.
AnnouncementsSeparate ==
  [][message # "" /\ message' # message =>
       \/ Len(announced') > Len(announced)
       \/ /\ message' = ""
          /\ timers # {}
          /\ nextTimer.id = 2 * callOf(message)]_vars


\* ---------------------------------------------------------------------------
\* lib/palette/generator.ts: generatePalette and regeneratePalette. The values
\* of Math.random() are an outcome, a record of the values the generator
\* derives from them.

\* const maxAttempts = 100
maxAttempts == 100

\* Math.cos and Math.sin of a hue in degrees, in 1/Unit, at the hues of the
\* outcomes.
HueVector(h) ==
  CASE h = 0 -> <<1000000, 0>>
    [] h = 20 -> <<939693, 342020>>
    [] h = 30 -> <<866025, 500000>>
    [] h = 70 -> <<342020, 939693>>
    [] h = 90 -> <<0, 1000000>>
    [] h = 110 -> <<0 - 342020, 939693>>
    [] h = 120 -> <<0 - 500000, 866025>>
    [] h = 160 -> <<0 - 939693, 342020>>
    [] h = 180 -> <<0 - 1000000, 0>>
    [] h = 200 -> <<0 - 939693, 0 - 342020>>
    [] h = 250 -> <<0 - 342020, 0 - 939693>>
    [] h = 270 -> <<0, 0 - 1000000>>
    [] h = 290 -> <<342020, 0 - 939693>>
    [] h = 340 -> <<939693, 0 - 342020>>

\* oklchToHex(l, c, h): oklch -> oklab (a = c cos h, b = c sin h) -> hex
oklchToHex(l, c, h) ==
  LET v == HueVector((h + 360) % 360)
  IN  formatHex(<<l, Mul(c, v[1]), Mul(c, v[2])>>)

\* palette.find(c => c.role === role): the first entry of the role, or NULL
findByRole(palette, role) ==
  LET hits == {k \in 1..Len(palette) : palette[k].role = role}
  IN  IF hits = {} THEN NULL
      ELSE palette[CHOOSE k \in hits : \A m \in hits : k <= m]

\* isPaletteCompliant(palette)
isPaletteCompliant(palette) ==
  LET background == findByRole(palette, "background")
      surface == findByRole(palette, "surface")
      textPrimary == findByRole(palette, "text-primary")
      textSecondary == findByRole(palette, "text-secondary")
  IN  IF background = NULL \/ surface = NULL \/ textPrimary = NULL THEN FALSE
      ELSE IF calculateContrast(textPrimary.hex, background.hex) < AA_NORMAL THEN FALSE
      ELSE IF calculateContrast(textPrimary.hex, surface.hex) < AA_NORMAL THEN FALSE
      ELSE IF textSecondary # NULL
           THEN /\ ~(calculateContrast(textSecondary.hex, background.hex) < AA_NORMAL)
                /\ ~(calculateContrast(textSecondary.hex, surface.hex) < AA_LARGE)
           ELSE TRUE

\* generatePaletteAttempt() under outcome r; the ids are the five after base.
generatePaletteAttempt_greyText(r, base) ==
  << [id |-> base + 1, role |-> "background", label |-> "Background", locked |-> FALSE,
      hex |-> oklchToHex(r.bgLightness, r.bgChroma, r.bgHue)],
     [id |-> base + 2, role |-> "surface", label |-> "Surface", locked |-> FALSE,
      hex |-> oklchToHex(r.surfaceLightness, r.surfaceChroma, r.bgHue + r.surfaceHueShift)],
     [id |-> base + 3, role |-> "text-primary", label |-> "Text", locked |-> FALSE,
      hex |-> oklchToHex(r.primaryLightness, r.textChroma, r.textHue)],
     [id |-> base + 4, role |-> "primary", label |-> "Primary", locked |-> FALSE,
      hex |-> oklchToHex(r.primaryLightness, r.primaryChroma, r.primaryHue)],
     [id |-> base + 5, role |-> "accent", label |-> "Accent", locked |-> FALSE,
      hex |-> oklchToHex(r.accentLightness, r.accentChroma,
                         (r.primaryHue + r.accentHueShift) % 360)] >>

generatePaletteAttempt(r, base) ==
  << [id |-> base + 1, role |-> "background", label |-> "Background", locked |-> FALSE,
      hex |-> oklchToHex(r.bgLightness, r.bgChroma, r.bgHue)],
     [id |-> base + 2, role |-> "surface", label |-> "Surface", locked |-> FALSE,
      hex |-> oklchToHex(r.surfaceLightness, r.surfaceChroma, r.bgHue + r.surfaceHueShift)],
     [id |-> base + 3, role |-> "text-primary", label |-> "Text", locked |-> FALSE,
      hex |-> oklchToHex(r.textLightness, r.textChroma, r.textHue)],
     [id |-> base + 4, role |-> "primary", label |-> "Primary", locked |-> FALSE,
      hex |-> oklchToHex(r.primaryLightness, r.primaryChroma, r.primaryHue)],
     [id |-> base + 5, role |-> "accent", label |-> "Accent", locked |-> FALSE,
      hex |-> oklchToHex(r.accentLightness, r.accentChroma,
                         (r.primaryHue + r.accentHueShift) % 360)] >>

\* generateSemanticColor(role, { primaryHue }) under outcome r: r.semantic
\* is the low or the high end of the role's lightness and chroma ranges; the
\* hue is the low end of the role's range.
generateSemanticColor(role, r) ==
  LET low == r.semantic = 0
  IN  CASE role = "error" ->
             oklchToHex(IF low THEN 500000 ELSE 600000, IF low THEN 150000 ELSE 220000, 0)
        [] role = "warning" ->
             oklchToHex(IF low THEN 650000 ELSE 750000, IF low THEN 150000 ELSE 200000, 30)
        [] role = "success" ->
             oklchToHex(IF low THEN 550000 ELSE 650000, IF low THEN 120000 ELSE 180000, 120)
        [] role = "info" ->
             oklchToHex(IF low THEN 550000 ELSE 650000, IF low THEN 120000 ELSE 180000, 200)
        [] role = "border" ->
             oklchToHex(IF low THEN 750000 ELSE 850000, IF low THEN 10000 ELSE 30000, 0)
        [] role = "text-secondary" ->
             oklchToHex(IF low THEN 450000 ELSE 550000, IF low THEN 20000 ELSE 50000, 0)
        [] OTHER ->
             oklchToHex(IF low THEN 450000 ELSE 700000, IF low THEN 100000 ELSE 200000, 0)

\* getRoleLabel(role)
getRoleLabel(role) ==
  CASE role = "background" -> "Background"
    [] role = "surface" -> "Surface"
    [] role = "text-primary" -> "Text"
    [] role = "text-secondary" -> "Text Secondary"
    [] role = "primary" -> "Primary"
    [] role = "secondary" -> "Secondary Action"
    [] role = "accent" -> "Accent"
    [] role = "success" -> "Success"
    [] role = "warning" -> "Warning"
    [] role = "error" -> "Error"
    [] role = "info" -> "Info"
    [] role = "border" -> "Border"
    [] role = "custom" -> "Custom"

\* new Map(lockedColors.map(c => [c.role, c])): a later entry of a role
\* replaces an earlier one.
lockedByRole(palette) ==
  LET lockedAt(role) == {k \in 1..Len(palette) : palette[k].locked /\ palette[k].role = role}
  IN  [role \in {palette[k].role : k \in {m \in 1..Len(palette) : palette[m].locked}} |->
         palette[CHOOSE k \in lockedAt(role) : \A m \in lockedAt(role) : m <= k]]

\* The largest id of a palette: the ids generated are the ones after it.
lastId(palette) ==
  IF palette = NULL THEN 0
  ELSE CHOOSE n \in {palette[k].id : k \in 1..Len(palette)} :
         \A k \in 1..Len(palette) : palette[k].id <= n

\* generatePaletteWithRoles(roles, lockedColors) under outcome r
generatePaletteWithRoles(roles, lockedColors, r, base) ==
  LET basePalette == generatePaletteAttempt(r, base)
  IN  [k \in 1..Len(roles) |->
         IF roles[k] \in DOMAIN lockedColors THEN lockedColors[roles[k]]
         ELSE IF findByRole(basePalette, roles[k]) # NULL
              THEN findByRole(basePalette, roles[k])
              ELSE [id |-> base + 5 + k,
                    hex |-> generateSemanticColor(roles[k], r),
                    label |-> getRoleLabel(roles[k]),
                    role |-> roles[k],
                    locked |-> FALSE]]

\* currentPalette.map(c => c.role)
rolesOf(palette) == [k \in 1..Len(palette) |-> palette[k].role]

\* if (lockedColors.length === 0 && currentRoles.length === 5)
generatesFresh(palette) ==
  /\ \A k \in 1..Len(palette) : ~palette[k].locked
  /\ Len(palette) = 5

\* The outcomes: each range at its two ends, the hues a quarter turn apart.
Outcomes ==
  [bgLightness : {920000, 980000}, bgChroma : {30000}, bgHue : {0, 180},
   surfaceLightness : {850000, 910000}, surfaceChroma : {40000},
   surfaceHueShift : {0 - 20, 20},
   textLightness : {150000, 250000}, textChroma : {30000}, textHue : {90, 270},
   primaryHue : {0}, primaryLightness : {450000, 650000}, primaryChroma : {250000},
   accentHueShift : {90, 270}, accentLightness : {650000}, accentChroma : {150000},
   semantic : {0, 1}]

\* The outcomes of the attempts of regeneratePalette.
RegenOutcomes ==
  {r \in Outcomes :
     /\ r.bgLightness = 920000 /\ r.bgHue = 0
     /\ r.surfaceLightness = 850000 /\ r.surfaceHueShift = 20
     /\ r.textHue = 90 /\ r.primaryLightness = 450000 /\ r.accentHueShift = 90}

\* Palettes the user can build from the default one.
lockedAtIds(palette, ids) ==
  [k \in 1..Len(palette) |->
     IF palette[k].id \in ids THEN [palette[k] EXCEPT !.locked = TRUE] ELSE palette[k]]

withAdded(palette, role, hex) ==
  Append(palette, [id |-> lastId(palette) + 1, hex |-> hex, label |-> getRoleLabel(role),
                   role |-> role, locked |-> FALSE])

RegenInputs ==
  { \* the text colour locked
    lockedAtIds(createDefaultPalette, {3}),
    \* a border and an error colour added, the primary colour locked
    lockedAtIds(withAdded(withAdded(createDefaultPalette, "border", <<209, 213, 219>>),
                          "error", <<220, 38, 38>>), {4}),
    \* a secondary text colour added, nothing locked
    withAdded(createDefaultPalette, "text-secondary", <<107, 114, 128>>),
    \* the text colour set to a light grey and locked
    lockedAtIds([createDefaultPalette EXCEPT ![3].hex = <<209, 213, 219>>], {3}),
    \* two custom colours added, the first of them locked
    lockedAtIds(withAdded(withAdded(createDefaultPalette, "custom", BLACK),
                          "custom", <<255, 0, 0>>), {6}),
    \* two custom colours added, both locked
    lockedAtIds(withAdded(withAdded(createDefaultPalette, "custom", BLACK),
                          "custom", <<255, 0, 0>>), {6, 7}),
    \* the accent colour removed and a custom colour added, nothing locked
    withAdded(filterOutId(createDefaultPalette, 5), "custom", BLACK) }

\* generatePalette()
CallGeneratePalette ==
  /\ Callable
  /\ pc' = "generating"
  /\ currentPalette' = NULL
  /\ attempts' = 0
  /\ bestPalette' = NULL
  /\ generated' = NULL
  /\ UNCHANGED <<searchVars, matrixVars, queryVars, utilVars, paletteVars, hookVars,
                 announceVars>>

\* regeneratePalette(currentPalette), to the loop
CallRegeneratePalette(palette) ==
  /\ Callable
  /\ pc' = IF generatesFresh(palette) THEN "generating" ELSE "regenerating"
  /\ currentPalette' = palette
  /\ attempts' = 0
  /\ bestPalette' = NULL
  /\ generated' = NULL
  /\ UNCHANGED <<searchVars, matrixVars, queryVars, utilVars, paletteVars, hookVars,
                 announceVars>>

\* generatePalette: one turn of the loop, or the return after it
GenerateAttempt(r) ==
  /\ pc = "generating"
  /\ IF attempts < maxAttempts
     THEN IF isPaletteCompliant(generatePaletteAttempt(r, lastId(currentPalette)))
          THEN /\ generated' = generatePaletteAttempt(r, lastId(currentPalette))
               /\ pc' = "generated"
               /\ attempts' = attempts
          ELSE /\ attempts' = attempts + 1
               /\ UNCHANGED <<pc, generated>>
     ELSE /\ generated' = generatePaletteAttempt(r, lastId(currentPalette))
          /\ pc' = "generated"
          /\ attempts' = attempts
  /\ UNCHANGED <<currentPalette, bestPalette>>
  /\ UNCHANGED <<searchVars, matrixVars, queryVars, utilVars, paletteVars, hookVars,
                 announceVars>>

\* regeneratePalette: one turn of the loop, or the return after it
RegenerateAttempt(r) ==
  /\ pc = "regenerating"
  /\ LET newPalette == generatePaletteWithRoles(rolesOf(currentPalette),
                                                lockedByRole(currentPalette), r,
                                                lastId(currentPalette))
     IN  IF attempts < maxAttempts
         THEN IF isPaletteCompliant(newPalette)
              THEN /\ generated' = newPalette
                   /\ pc' = "generated"
                   /\ UNCHANGED <<attempts, bestPalette>>
              ELSE /\ bestPalette' = IF bestPalette = NULL THEN newPalette ELSE bestPalette
                   /\ attempts' = attempts + 1
                   /\ UNCHANGED <<pc, generated>>
         ELSE /\ generated' = IF bestPalette # NULL THEN bestPalette ELSE currentPalette
              /\ pc' = "generated"
              /\ UNCHANGED <<attempts, bestPalette>>
  /\ UNCHANGED currentPalette
  /\ UNCHANGED <<searchVars, matrixVars, queryVars, utilVars, paletteVars, hookVars,
                 announceVars>>

GeneratorNext ==
  \/ CallGeneratePalette
  \/ Callable /\ \E palette \in RegenInputs : CallRegeneratePalette(palette)
  \/ pc = "generating" /\ \E r \in Outcomes : GenerateAttempt(r)
  \/ pc = "regenerating" /\ \E r \in RegenOutcomes : RegenerateAttempt(r)

GeneratorSpec == Init /\ [][GeneratorNext]_vars

\* C28: generatePalette returns a palette isPaletteCompliant accepts, whatever
\* the random values, within the bound on attempts: no attempt is rejected,
\* so the first one is returned.
GeneratedCompliant ==
  (currentPalette = NULL \/ generatesFresh(currentPalette)) =>
    /\ pc = "generating" => attempts = 0
    /\ pc = "generated" =>
         /\ isPaletteCompliant(generated)
         /\ calculateContrast(generated[3].hex, generated[1].hex) >= AA_NORMAL
         /\ calculateContrast(generated[3].hex, generated[2].hex) >= AA_NORMAL
         /\ attempts < maxAttempts

\* the lightest text on the darkest surface
GeneratedCompliantWitness ==
  /\ pc = "generated"
  /\ currentPalette = NULL
  /\ generated[3].hex = oklchToHex(250000, 30000, 90)
  /\ generated[2].hex = oklchToHex(850000, 40000, 20)

\* C27: regeneratePalette returns as many colours as it was given, with the
\* same role at each position, every locked colour unchanged at its position,
\* and ids that are pairwise distinct.
RegeneratePreserves ==
  pc = "generated" /\ currentPalette # NULL =>
    /\ Len(generated) = Len(currentPalette)
    /\ \A k \in 1..Len(currentPalette) :
         /\ generated[k].role = currentPalette[k].role
         /\ currentPalette[k].locked => generated[k] = currentPalette[k]
    /\ \A k \in 1..Len(generated), m \in 1..Len(generated) :
         k # m => generated[k].id # generated[m].id
====
